---- MODULE Spec2Model ----
(***************************************************************************)
(* Model of pkg/client/msp/msp.go: the MSP client facade.  One facade      *)
(* instance is followed from construction (New) through calls of its six   *)
(* methods.  Every action is one whole call: it records the inputs of the  *)
(* call (call), the ordered calls it made on its collaborators (trace)     *)
(* and what it returned (ret).                                             *)
(***************************************************************************)
EXTENDS Integers, Sequences, FiniteSets, TLC

VARIABLES msp, call, trace, ret

vars == <<msp, call, trace, ret>>

----------------------------------------------------------------------------
(* Bounds *)

MaxClientOpts == 2
MaxEnrollOpts == 2
MaxAttrs == 2
MaxCerts == 2

SeqsUpTo(S, n) == UNION {[1..k -> S] : k \in 0..n}

----------------------------------------------------------------------------
(* Errors are tuples of strings: the empty tuple is nil, a wrapped error   *)
(* is the message followed by its cause.                                   *)

Nil == <<>>

WithMessage(err, msg) == <<msg>> \o err

Errorf(orgName) == <<"identity manager not found for organization '", orgName>>

mspctxErrUserNotFound == <<"mspctx.ErrUserNotFound">>

ErrUserNotFound == <<"msp.ErrUserNotFound">>

(* A call made on a collaborator *)
Invoke(fn, arg) == [fn |-> fn, arg |-> arg]

----------------------------------------------------------------------------
(* The session: organizations, the identity managers the context has, the  *)
(* users the identity manager's store holds.                               *)

OrgNames == {"", "Org1", "Org2"}

IMOrgs == {"Org1"}

UserNames == {"alice", "bob"}

StoredUsers == {"alice"}

UserOf(orgName, userName) ==
    [Name |-> userName, MspID |-> orgName,
     PrivateKey |-> <<"key", userName>>,
     EnrollmentCert |-> <<"cert", userName>>]

NoValue == "nil"

Return(op, err, isNil, val) ==
    [op |-> op, panic |-> FALSE, err |-> err, isNil |-> isNil, val |-> val]

Panic(op) ==
    [op |-> op, panic |-> TRUE, err |-> Nil, isNil |-> TRUE, val |-> NoValue]

Outcome(r, t) == [ret |-> r, trace |-> t]

NoMSP == [ok |-> FALSE, orgName |-> ""]

----------------------------------------------------------------------------
(* Construction *)

ClientOptions ==
    {[kind |-> "WithOrg", arg |-> n] : n \in OrgNames}
        \cup {[kind |-> "Custom", arg |-> ""],
              [kind |-> "Fail", arg |-> "bad option"]}

(* WithOrg: the returned option sets orgName and returns nil. *)
WithOrg(m, opt) == [m EXCEPT !.orgName = opt.arg]

(* param(&msp).  ClientOption is an exported function type: a "Custom"    *)
(* option is a caller-written one that sets nothing and returns nil, a    *)
(* "Fail" option one that returns an error.                               *)
ApplyClientOption(m, opt) ==
    IF opt.kind = "WithOrg"
    THEN [msp |-> WithOrg(m, opt), err |-> Nil]
    ELSE IF opt.kind = "Custom"
    THEN [msp |-> m, err |-> Nil]
    ELSE [msp |-> m, err |-> <<opt.arg>>]

(* The loop over opts in New, from option i on *)
RECURSIVE ApplyClientOpts(_, _, _, _)
ApplyClientOpts(opts, i, m, t) ==
    IF i > Len(opts)
    THEN [msp |-> m, err |-> Nil, trace |-> t]
    ELSE LET r == ApplyClientOption(m, opts[i])
             t1 == Append(t, Invoke("option", <<i>>))
         IN IF r.err # Nil
            THEN [msp |-> m,
                  err |-> WithMessage(r.err, "failed to create MSP"),
                  trace |-> t1]
            ELSE ApplyClientOpts(opts, i + 1, r.msp, t1)

(* Mutant: the configuration is read whether or not an option set the name *)
DefaultOrg_always(m, in, t) ==
    LET t2 == Append(t, Invoke("ctx.Config().Client", <<>>))
    IN IF in.configErr # Nil
       THEN [msp |-> NoMSP,
             out |-> Outcome(Return("New",
                        WithMessage(in.configErr, "failed to create MSP"),
                        TRUE, NoValue), t2)]
       ELSE LET m2 == [m EXCEPT !.orgName = in.configOrg]
            IN [msp |-> m2, out |-> Outcome(Return("New", Nil, FALSE, m2), t2)]

(* Mutant: the error of the configuration lookup is not checked *)
DefaultOrg_unchecked(m, in, t) ==
    IF m.orgName = ""
    THEN LET t2 == Append(t, Invoke("ctx.Config().Client", <<>>))
             m2 == [m EXCEPT !.orgName = in.configOrg]
         IN [msp |-> m2, out |-> Outcome(Return("New", Nil, FALSE, m2), t2)]
    ELSE [msp |-> m, out |-> Outcome(Return("New", Nil, FALSE, m), t)]

(* The end of New: the default organization and the return.  in.configErr *)
(* and in.configOrg are what ctx.Config().Client() returns if called.     *)
DefaultOrg(m, in, t) ==
    IF m.orgName = ""
    THEN LET t2 == Append(t, Invoke("ctx.Config().Client", <<>>))
         IN IF in.configErr # Nil
            THEN [msp |-> NoMSP,
                  out |-> Outcome(Return("New",
                             WithMessage(in.configErr, "failed to create MSP"),
                             TRUE, NoValue), t2)]
            ELSE LET m2 == [m EXCEPT !.orgName = in.configOrg]
                 IN [msp |-> m2,
                     out |-> Outcome(Return("New", Nil, FALSE, m2), t2)]
    ELSE [msp |-> m, out |-> Outcome(Return("New", Nil, FALSE, m), t)]

(* Mutant: the error of an option is not checked *)
NewMSP_uncheckedOption(in) ==
    LET t0 == <<Invoke("clientProvider", <<>>)>>
    IN IF in.providerErr # Nil
       THEN [msp |-> NoMSP,
             out |-> Outcome(Return("New",
                        WithMessage(in.providerErr, "failed to create MSP"),
                        TRUE, NoValue), t0)]
       ELSE LET a == ApplyClientOpts(in.opts, 1,
                        [ok |-> TRUE, orgName |-> ""], t0)
            IN DefaultOrg(a.msp, in, a.trace)

(* New.  in.providerErr is what clientProvider() returns, in.opts the     *)
(* options of the call.                                                   *)
NewMSP(in) ==
    LET t0 == <<Invoke("clientProvider", <<>>)>>
    IN IF in.providerErr # Nil
       THEN [msp |-> NoMSP,
             out |-> Outcome(Return("New",
                        WithMessage(in.providerErr, "failed to create MSP"),
                        TRUE, NoValue), t0)]
       ELSE LET a == ApplyClientOpts(in.opts, 1,
                        [ok |-> TRUE, orgName |-> ""], t0)
            IN IF a.err # Nil
               THEN [msp |-> NoMSP,
                     out |-> Outcome(Return("New", a.err, TRUE, NoValue),
                                a.trace)]
               ELSE DefaultOrg(a.msp, in, a.trace)

NewInputs ==
    [providerErr : {Nil, <<"no context">>},
     opts : SeqsUpTo(ClientOptions, MaxClientOpts),
     configErr : {Nil, <<"no client config">>},
     configOrg : OrgNames]

----------------------------------------------------------------------------
(* CA client resolution *)

newCAClient(orgName, caErr) ==
    LET t0 == <<Invoke("ctx.IdentityManager", <<orgName>>)>>
    IN IF orgName \notin IMOrgs
       THEN [ok |-> FALSE, err |-> Errorf(orgName), trace |-> t0]
       ELSE LET t1 == Append(t0, Invoke("msp.NewCAClient", <<orgName>>))
            IN IF caErr # Nil
               THEN [ok |-> FALSE,
                     err |-> WithMessage(caErr, "failed to create CA MSP"),
                     trace |-> t1]
               ELSE [ok |-> TRUE, err |-> Nil, trace |-> t1]

CreationErrs == {Nil, <<"bad CA config">>}

----------------------------------------------------------------------------
(* Enroll, Reenroll *)

EnrollmentOptions ==
    {[kind |-> "WithSecret", arg |-> s] : s \in {"s1", "s2"}}
        \cup {[kind |-> "Fail", arg |-> "bad enrollment option"]}

WithSecret(eo, opt) == [eo EXCEPT !.secret = opt.arg]

ApplyEnrollmentOption(eo, opt) ==
    IF opt.kind = "WithSecret"
    THEN [eo |-> WithSecret(eo, opt), err |-> Nil]
    ELSE [eo |-> eo, err |-> <<opt.arg>>]

RECURSIVE ApplyEnrollmentOpts(_, _, _)
ApplyEnrollmentOpts(opts, i, eo) ==
    IF i > Len(opts)
    THEN [eo |-> eo, err |-> Nil]
    ELSE LET r == ApplyEnrollmentOption(eo, opts[i])
         IN IF r.err # Nil
            THEN [eo |-> eo, err |-> WithMessage(r.err, "failed to enroll")]
            ELSE ApplyEnrollmentOpts(opts, i + 1, r.eo)

(* Mutant: the error of ca.Enroll is wrapped like the other errors *)
Enroll_wrapped(c, in) ==
    LET a == ApplyEnrollmentOpts(in.opts, 1, [secret |-> ""])
    IN IF a.err # Nil
       THEN Outcome(Return("Enroll", a.err, TRUE, NoValue), <<>>)
       ELSE LET ca == newCAClient(c.orgName, in.creationErr)
                t == Append(ca.trace,
                        Invoke("ca.Enroll", <<in.enrollmentID, a.eo.secret>>))
            IN IF ~ca.ok
               THEN Outcome(Return("Enroll", ca.err, TRUE, NoValue), ca.trace)
               ELSE IF in.caErr # Nil
               THEN Outcome(Return("Enroll",
                        WithMessage(in.caErr, "failed to enroll"), TRUE, NoValue), t)
               ELSE Outcome(Return("Enroll", Nil, TRUE, NoValue), t)

Enroll(c, in) ==
    LET a == ApplyEnrollmentOpts(in.opts, 1, [secret |-> ""])
    IN IF a.err # Nil
       THEN Outcome(Return("Enroll", a.err, TRUE, NoValue), <<>>)
       ELSE LET ca == newCAClient(c.orgName, in.creationErr)
            IN IF ~ca.ok
               THEN Outcome(Return("Enroll", ca.err, TRUE, NoValue), ca.trace)
               ELSE Outcome(Return("Enroll", in.caErr, TRUE, NoValue),
                        Append(ca.trace,
                            Invoke("ca.Enroll", <<in.enrollmentID, a.eo.secret>>)))

(* Mutant: a failed ca.Reenroll is tried a second time *)
Reenroll_retry(c, in) ==
    LET ca == newCAClient(c.orgName, in.creationErr)
        t == Append(ca.trace, Invoke("ca.Reenroll", <<in.enrollmentID>>))
    IN IF ~ca.ok
       THEN Outcome(Return("Reenroll", ca.err, TRUE, NoValue), ca.trace)
       ELSE IF in.caErr # Nil
       THEN Outcome(Return("Reenroll", in.caErr, TRUE, NoValue),
                Append(t, Invoke("ca.Reenroll", <<in.enrollmentID>>)))
       ELSE Outcome(Return("Reenroll", Nil, TRUE, NoValue), t)

Reenroll(c, in) ==
    LET ca == newCAClient(c.orgName, in.creationErr)
    IN IF ~ca.ok
       THEN Outcome(Return("Reenroll", ca.err, TRUE, NoValue), ca.trace)
       ELSE Outcome(Return("Reenroll", in.caErr, TRUE, NoValue),
                Append(ca.trace, Invoke("ca.Reenroll", <<in.enrollmentID>>)))

CAErrs == {Nil, <<"rejected by CA">>}

EnrollInputs ==
    [enrollmentID : {"alice"},
     opts : SeqsUpTo(EnrollmentOptions, MaxEnrollOpts),
     creationErr : CreationErrs,
     caErr : CAErrs]

ReenrollInputs ==
    [enrollmentID : UserNames, creationErr : CreationErrs, caErr : CAErrs]

----------------------------------------------------------------------------
(* Register *)

Attributes ==
    {[Name |-> "hf.Registrar.Roles", Key |-> "roles", Value |-> "client"],
     [Name |-> "hf.Revoker", Key |-> "revoker", Value |-> "true"]}

(* The loop that builds the slice a from request.Attributes *)
RECURSIVE CopyAttributes(_, _, _)
CopyAttributes(attrs, i, a) ==
    IF i > Len(attrs)
    THEN a
    ELSE CopyAttributes(attrs, i + 1,
            Append(a, [Name |-> attrs[i].Name, Key |-> attrs[i].Key,
                       Value |-> attrs[i].Value]))

(* The literal r: Attributes is not among the fields it sets, so it keeps *)
(* its zero value, the empty slice.                                       *)
RegistrationRequestOf(request, a) ==
    [Name |-> request.Name,
     Type |-> request.Type,
     MaxEnrollments |-> request.MaxEnrollments,
     Affiliation |-> request.Affiliation,
     CAName |-> request.CAName,
     Secret |-> request.Secret,
     Attributes |-> <<>>]

Register(c, in) ==
    LET ca == newCAClient(c.orgName, in.creationErr)
    IN IF ~ca.ok
       THEN Outcome(Return("Register", ca.err, FALSE, ""), ca.trace)
       ELSE LET a == CopyAttributes(in.request.Attributes, 1, <<>>)
                r == RegistrationRequestOf(in.request, a)
            IN Outcome(Return("Register", in.caErr, FALSE, in.caSecret),
                   Append(ca.trace, Invoke("ca.Register", <<r>>)))

RegistrationRequests ==
    [Name : {"alice"}, Type : {"client"}, MaxEnrollments : {1},
     Affiliation : {"org1.dept1"}, CAName : {"ca1"}, Secret : {"", "pw"},
     Attributes : SeqsUpTo(Attributes, MaxAttrs)]

RegisterInputs ==
    {in \in [request : RegistrationRequests, creationErr : CreationErrs,
             caErr : CAErrs, caSecret : {"", "pw"}] :
        (in.caErr = Nil) <=> (in.caSecret # "")}

----------------------------------------------------------------------------
(* Revoke *)

RevokedCerts ==
    {[Serial |-> "01", AKI |-> "aa"], [Serial |-> "02", AKI |-> "bb"]}

(* The conversion of the caller's request to mspapi.RevocationRequest *)
RevocationRequestOf(request) ==
    [Name |-> request.Name, Serial |-> request.Serial, AKI |-> request.AKI,
     Reason |-> request.Reason, CAName |-> request.CAName]

RECURSIVE CopyRevokedCerts(_, _, _)
CopyRevokedCerts(certs, i, revokedCerts) ==
    IF i > Len(certs)
    THEN revokedCerts
    ELSE CopyRevokedCerts(certs, i + 1,
            Append(revokedCerts,
                [Serial |-> certs[i].Serial, AKI |-> certs[i].AKI]))

(* Mutant: the error of ca.Revoke is returned along with the response *)
Revoke_partial(c, in) ==
    LET ca == newCAClient(c.orgName, in.creationErr)
    IN IF ~ca.ok
       THEN Outcome(Return("Revoke", ca.err, TRUE, NoValue), ca.trace)
       ELSE LET req == RevocationRequestOf(in.request)
                t == Append(ca.trace, Invoke("ca.Revoke", <<req>>))
            IN Outcome(Return("Revoke", in.caErr, FALSE,
                    [RevokedCerts |->
                        CopyRevokedCerts(in.resp.RevokedCerts, 1, <<>>),
                     CRL |-> in.resp.CRL]), t)

Revoke(c, in) ==
    LET ca == newCAClient(c.orgName, in.creationErr)
    IN IF ~ca.ok
       THEN Outcome(Return("Revoke", ca.err, TRUE, NoValue), ca.trace)
       ELSE LET req == RevocationRequestOf(in.request)
                t == Append(ca.trace, Invoke("ca.Revoke", <<req>>))
            IN IF in.caErr # Nil
               THEN Outcome(Return("Revoke", in.caErr, TRUE, NoValue), t)
               ELSE Outcome(Return("Revoke", Nil, FALSE,
                        [RevokedCerts |->
                            CopyRevokedCerts(in.resp.RevokedCerts, 1, <<>>),
                         CRL |-> in.resp.CRL]), t)

RevocationRequests ==
    [Name : {"alice", ""}, Serial : {"", "01"}, AKI : {"", "aa"},
     Reason : {"keycompromise"}, CAName : {"ca1"}]

(* What ca.Revoke returns: a response (possibly partial) and an error *)
RevokeInputs ==
    [request : RevocationRequests, creationErr : CreationErrs,
     caErr : CAErrs,
     resp : [RevokedCerts : SeqsUpTo(RevokedCerts, MaxCerts),
             CRL : {<<>>, <<1, 2>>}]]

----------------------------------------------------------------------------
(* GetUser, GetSigningIdentity *)

(* im.GetUser(userName) of the organization's identity manager *)
imGetUser(orgName, userName, storeErr) ==
    IF storeErr # Nil THEN [err |-> storeErr, isNil |-> TRUE, user |-> NoValue]
    ELSE IF userName \notin StoredUsers
    THEN [err |-> mspctxErrUserNotFound, isNil |-> TRUE, user |-> NoValue]
    ELSE [err |-> Nil, isNil |-> FALSE, user |-> UserOf(orgName, userName)]

(* Mutant: the error of im.GetUser is returned as it is *)
GetUser_raw(c, in) ==
    LET t0 == <<Invoke("ctx.IdentityManager", <<c.orgName>>)>>
    IN IF c.orgName \notin IMOrgs
       THEN Outcome(Panic("GetUser"), t0)
       ELSE LET r == imGetUser(c.orgName, in.userName, in.storeErr)
                t == Append(t0, Invoke("im.GetUser", <<in.userName>>))
            IN IF r.err # Nil
               THEN Outcome(Return("GetUser", r.err, TRUE, NoValue), t)
               ELSE Outcome(Return("GetUser", Nil, FALSE, r.user), t)

(* The ok result of ctx.IdentityManager is discarded: with no identity    *)
(* manager im is nil and im.GetUser is a nil dereference.                 *)
GetUser(c, in) ==
    LET t0 == <<Invoke("ctx.IdentityManager", <<c.orgName>>)>>
    IN IF c.orgName \notin IMOrgs
       THEN Outcome(Panic("GetUser"), t0)
       ELSE LET r == imGetUser(c.orgName, in.userName, in.storeErr)
                t == Append(t0, Invoke("im.GetUser", <<in.userName>>))
            IN IF r.err # Nil
               THEN IF r.err = mspctxErrUserNotFound
                    THEN Outcome(Return("GetUser", ErrUserNotFound, TRUE, NoValue), t)
                    ELSE Outcome(Return("GetUser", r.err, TRUE, NoValue), t)
               ELSE Outcome(Return("GetUser", Nil, FALSE, r.user), t)

GetSigningIdentity(c, in) ==
    LET u == GetUser(c, in)
    IN IF u.ret.panic
       THEN Outcome(Panic("GetSigningIdentity"), u.trace)
       ELSE IF u.ret.err # Nil
       THEN IF u.ret.err = mspctxErrUserNotFound
            THEN Outcome(Return("GetSigningIdentity", ErrUserNotFound, TRUE, NoValue),
                     u.trace)
            ELSE Outcome(Return("GetSigningIdentity", u.ret.err, TRUE, NoValue),
                     u.trace)
       ELSE Outcome(Return("GetSigningIdentity", Nil, FALSE,
                [MspID |-> u.ret.val.MspID,
                 PrivateKey |-> u.ret.val.PrivateKey,
                 EnrollmentCert |-> u.ret.val.EnrollmentCert]), u.trace)

StoreErrs == {Nil, <<"store unavailable">>}

GetUserInputs == [userName : UserNames, storeErr : StoreErrs]

----------------------------------------------------------------------------
(* The state machine *)

NoCall == [op |-> "none", in |-> NoValue]

Init ==
    /\ msp = NoMSP
    /\ call = NoCall
    /\ trace = <<>>
    /\ ret = Return("none", Nil, TRUE, NoValue)

NewCall ==
    /\ ~msp.ok
    /\ \E in \in NewInputs :
        LET r == NewMSP(in)
        IN /\ msp' = r.msp
           /\ call' = [op |-> "New", in |-> in]
           /\ trace' = r.out.trace
           /\ ret' = r.out.ret

(* Mutant: Enroll stores the enrollment id as the organization name *)
EnrollCall_rebind ==
    /\ msp.ok
    /\ \E in \in EnrollInputs :
        LET r == Enroll(msp, in)
        IN /\ call' = [op |-> "Enroll", in |-> in]
           /\ trace' = r.trace
           /\ ret' = r.ret
           /\ msp' = [msp EXCEPT !.orgName = in.enrollmentID]

EnrollCall ==
    /\ msp.ok
    /\ \E in \in EnrollInputs :
        LET r == Enroll(msp, in)
        IN /\ call' = [op |-> "Enroll", in |-> in]
           /\ trace' = r.trace
           /\ ret' = r.ret
    /\ UNCHANGED msp

ReenrollCall ==
    /\ msp.ok
    /\ \E in \in ReenrollInputs :
        LET r == Reenroll(msp, in)
        IN /\ call' = [op |-> "Reenroll", in |-> in]
           /\ trace' = r.trace
           /\ ret' = r.ret
    /\ UNCHANGED msp

RegisterCall ==
    /\ msp.ok
    /\ \E in \in RegisterInputs :
        LET r == Register(msp, in)
        IN /\ call' = [op |-> "Register", in |-> in]
           /\ trace' = r.trace
           /\ ret' = r.ret
    /\ UNCHANGED msp

RevokeCall ==
    /\ msp.ok
    /\ \E in \in RevokeInputs :
        LET r == Revoke(msp, in)
        IN /\ call' = [op |-> "Revoke", in |-> in]
           /\ trace' = r.trace
           /\ ret' = r.ret
    /\ UNCHANGED msp

GetUserCall ==
    /\ msp.ok
    /\ \E in \in GetUserInputs :
        LET r == GetUser(msp, in)
        IN /\ call' = [op |-> "GetUser", in |-> in]
           /\ trace' = r.trace
           /\ ret' = r.ret
    /\ UNCHANGED msp

GetSigningIdentityCall ==
    /\ msp.ok
    /\ \E in \in GetUserInputs :
        LET r == GetSigningIdentity(msp, in)
        IN /\ call' = [op |-> "GetSigningIdentity", in |-> in]
           /\ trace' = r.trace
           /\ ret' = r.ret
    /\ UNCHANGED msp

Next ==
    \/ NewCall
    \/ EnrollCall
    \/ ReenrollCall
    \/ RegisterCall
    \/ RevokeCall
    \/ GetUserCall
    \/ GetSigningIdentityCall

Spec == Init /\ [][Next]_vars

----------------------------------------------------------------------------
(* Properties *)

Methods ==
    {"Enroll", "Reenroll", "Register", "Revoke", "GetSigningIdentity", "GetUser"}

CAOps == {"ca.Enroll", "ca.Reenroll", "ca.Register", "ca.Revoke"}

(* The positions in the trace of the last call of the calls to fns *)
Calls(fns) == {i \in 1..Len(trace) : trace[i].fn \in fns}

Resolves == call.in.creationErr = Nil /\ msp.orgName \in IMOrgs

OptionFails(opts) == \E i \in 1..Len(opts) : opts[i].kind = "Fail"

FirstFail(opts) ==
    CHOOSE i \in 1..Len(opts) :
        opts[i].kind = "Fail" /\ \A j \in 1..(i - 1) : opts[j].kind # "Fail"

(* The secret of the last WithSecret among opts, empty without one *)
LastSecret(opts) ==
    LET S == {i \in 1..Len(opts) : opts[i].kind = "WithSecret"}
    IN IF S = {} THEN ""
       ELSE opts[CHOOSE i \in S : \A j \in S : j <= i].arg

(* C1: the request Register hands to ca.Register carries the caller's     *)
(* attributes: as many, in the same order, each with the same Name, Key   *)
(* and Value.                                                             *)
C1_AttributesForwarded ==
    \A i \in Calls({"ca.Register"}) :
        LET sent == trace[i].arg[1].Attributes
            asked == call.in.request.Attributes
        IN /\ Len(sent) = Len(asked)
           /\ \A k \in 1..Len(asked) :
                /\ sent[k].Name = asked[k].Name
                /\ sent[k].Key = asked[k].Key
                /\ sent[k].Value = asked[k].Value

(* C2: when im.GetUser reports the not-found sentinel, GetUser and        *)
(* GetSigningIdentity return the facade's ErrUserNotFound and no value;   *)
(* neither ever returns the sentinel itself.                              *)
C2_NotFoundTranslated ==
    call.op \in {"GetUser", "GetSigningIdentity"} =>
        /\ ret.err # mspctxErrUserNotFound
        /\ (/\ Calls({"im.GetUser"}) # {}
            /\ call.in.storeErr = Nil
            /\ call.in.userName \notin StoredUsers)
           => (~ret.panic /\ ret.err = ErrUserNotFound /\ ret.isNil)

C2_Witness ==
    /\ call.op = "GetSigningIdentity"
    /\ call.in.userName = "bob"
    /\ call.in.storeErr = Nil
    /\ Calls({"im.GetUser"}) # {}
    /\ ret.err = ErrUserNotFound

(* C3: on a facade whose organization has no identity manager, each of    *)
(* the six methods (Enroll when none of its options fails) returns the    *)
(* "identity manager not found" error naming the organization, without a  *)
(* crash and without a call on a CA client or an identity manager.        *)
C3_NoIdentityManager ==
    (/\ call.op \in Methods
     /\ msp.orgName \notin IMOrgs
     /\ (call.op = "Enroll" => ~OptionFails(call.in.opts)))
    => /\ ~ret.panic
       /\ ret.err = Errorf(msp.orgName)
       /\ Calls(CAOps \cup {"im.GetUser"}) = {}

(* C4: once the CA client is resolved, the error of the CA call is the    *)
(* error of Enroll, Reenroll, Register and Revoke, unchanged; Enroll      *)
(* hands ca.Enroll the caller's enrollment id and the last secret set.    *)
C4_CAErrorPassThrough ==
    \A i \in Calls(CAOps) :
        /\ ret.err = call.in.caErr
        /\ trace[i].fn = "ca.Enroll" =>
             trace[i].arg = <<call.in.enrollmentID, LastSecret(call.in.opts)>>

C4_Witness ==
    /\ call.op = "Enroll"
    /\ Len(call.in.opts) = 2
    /\ call.in.opts[1].arg # call.in.opts[2].arg
    /\ call.in.caErr # Nil
    /\ Calls({"ca.Enroll"}) # {}
    /\ ret.err = call.in.caErr

(* C5: Revoke returns revoked certificates only from a ca.Revoke that     *)
(* returned no error; on an error of ca.Revoke it returns no response and *)
(* that error; on success the (Serial, AKI) pairs, in order, and the CRL  *)
(* of the CA's response, an empty list included.                          *)
C5_RevokeResponse ==
    call.op = "Revoke" =>
        /\ ~ret.isNil => (Calls({"ca.Revoke"}) # {} /\ call.in.caErr = Nil)
        /\ (Calls({"ca.Revoke"}) # {} /\ call.in.caErr # Nil)
             => (ret.isNil /\ ret.err = call.in.caErr)
        /\ (Calls({"ca.Revoke"}) # {} /\ call.in.caErr = Nil)
             => /\ ~ret.isNil
                /\ ret.err = Nil
                /\ Len(ret.val.RevokedCerts) = Len(call.in.resp.RevokedCerts)
                /\ \A k \in 1..Len(call.in.resp.RevokedCerts) :
                     /\ ret.val.RevokedCerts[k].Serial
                            = call.in.resp.RevokedCerts[k].Serial
                     /\ ret.val.RevokedCerts[k].AKI
                            = call.in.resp.RevokedCerts[k].AKI
                /\ ret.val.CRL = call.in.resp.CRL

C5_Witness ==
    /\ call.op = "Revoke"
    /\ ~ret.isNil
    /\ Len(ret.val.RevokedCerts) = 2
    /\ ret.val.RevokedCerts[1] # ret.val.RevokedCerts[2]

(* C6: New whose options are organization overrides, the last one         *)
(* WithOrg(n) with n not empty, on a session the provider yields, never   *)
(* reads the client configuration, succeeds whatever that lookup would    *)
(* return, and gives a facade of organization n.                          *)
C6_WithOrgSkipsConfig ==
    (/\ call.op = "New"
     /\ call.in.providerErr = Nil
     /\ Len(call.in.opts) > 0
     /\ \A i \in 1..Len(call.in.opts) : call.in.opts[i].kind = "WithOrg"
     /\ call.in.opts[Len(call.in.opts)].arg # "")
    => /\ Calls({"ctx.Config().Client"}) = {}
       /\ ret.err = Nil
       /\ ~ret.isNil
       /\ msp.ok
       /\ msp.orgName = call.in.opts[Len(call.in.opts)].arg

C6_Witness ==
    /\ call.op = "New"
    /\ call.in.opts = <<[kind |-> "WithOrg", arg |-> "Org2"]>>
    /\ call.in.configErr # Nil
    /\ msp.ok
    /\ msp.orgName = "Org2"

(* C7: New without an organization option, on a session the provider      *)
(* yields and with options that succeed, reads the client configuration   *)
(* exactly once: the facade has the configuration's organization if the   *)
(* lookup succeeds, and New returns the wrapped error and no facade if    *)
(* it fails.                                                              *)
C7_DefaultOrgFromConfig ==
    (/\ call.op = "New"
     /\ call.in.providerErr = Nil
     /\ \A i \in 1..Len(call.in.opts) : call.in.opts[i].kind = "Custom")
    => /\ Cardinality(Calls({"ctx.Config().Client"})) = 1
       /\ call.in.configErr = Nil
            => (/\ ret.err = Nil
                /\ ~ret.isNil
                /\ msp.ok
                /\ msp.orgName = call.in.configOrg)
       /\ call.in.configErr # Nil
            => (/\ ret.err = WithMessage(call.in.configErr, "failed to create MSP")
                /\ ret.isNil
                /\ ~msp.ok)

C7_Witness ==
    /\ call.op = "New"
    /\ call.in.providerErr = Nil
    /\ Len(call.in.opts) = 1
    /\ call.in.opts[1].kind = "Custom"
    /\ call.in.configErr # Nil
    /\ ret.err # Nil
    /\ ~msp.ok

(* C8: New fails fast.  If the provider fails it returns an error and no  *)
(* facade, with no option applied and no configuration read.  Otherwise   *)
(* the options are applied in the order given up to the first that fails, *)
(* where New returns an error and no facade and reads no configuration.   *)
C8_FailFast ==
    call.op = "New" =>
        LET opts == call.in.opts
            applied == SelectSeq(trace, LAMBDA e : e.fn = "option")
            n == IF OptionFails(opts) THEN FirstFail(opts) ELSE Len(opts)
        IN /\ call.in.providerErr # Nil
                => (/\ ret.err = WithMessage(call.in.providerErr,
                                    "failed to create MSP")
                    /\ ret.isNil
                    /\ ~msp.ok
                    /\ applied = <<>>
                    /\ Calls({"ctx.Config().Client"}) = {})
           /\ call.in.providerErr = Nil
                => applied = [k \in 1..n |-> Invoke("option", <<k>>)]
           /\ (call.in.providerErr = Nil /\ OptionFails(opts))
                => (/\ ret.err = WithMessage(<<opts[n].arg>>,
                                    "failed to create MSP")
                    /\ ret.isNil
                    /\ ~msp.ok
                    /\ Calls({"ctx.Config().Client"}) = {})

C8_Witness ==
    /\ call.op = "New"
    /\ call.in.providerErr = Nil
    /\ Len(call.in.opts) = 2
    /\ call.in.opts[1].kind = "Fail"
    /\ call.in.opts[2].kind = "WithOrg"
    /\ Len(trace) = 2
    /\ ret.err # Nil

(* C9: no retries.  A call of Enroll, Reenroll, Register or Revoke makes  *)
(* its CA call once if the CA client resolves (and, for Enroll, no option *)
(* fails) and never otherwise, and no other CA call; a call of GetUser or *)
(* GetSigningIdentity makes at most one im.GetUser.                       *)
C9_NoRetry ==
    /\ call.op \in {"Enroll", "Reenroll", "Register", "Revoke"} =>
        /\ Calls(CAOps \ {"ca." \o call.op}) = {}
        /\ Cardinality(Calls({"ca." \o call.op})) =
             IF Resolves /\ (call.op = "Enroll" => ~OptionFails(call.in.opts))
             THEN 1 ELSE 0
    /\ call.op \in {"GetUser", "GetSigningIdentity"} =>
        /\ Cardinality(Calls({"im.GetUser"})) <= 1
        /\ Calls(CAOps) = {}

C9_Witness ==
    /\ call.op = "Reenroll"
    /\ call.in.caErr # Nil
    /\ ret.err = call.in.caErr
    /\ Cardinality(Calls({"ca.Reenroll"})) = 1

====
